---------------------------- MODULE Spec2Model ----------------------------
(***************************************************************************)
(* RBF (Readable Brainfuck), src/base.py: the Lexer, the jump-table        *)
(* pre-pass, the tape machine (Parser.parse) and the transpiler            *)
(* (Parser.compile), as state machines.                                    *)
(*                                                                         *)
(* Representation.                                                         *)
(*   - a source text is a sequence of one-character strings;               *)
(*   - Python's None is NoChar for Lexer.char and None (-1) for Token.val  *)
(*     (the lexer only attaches naturals, so -1 is free);                  *)
(*   - the tape self.list (CELL_SIZE cells) is kept as a function whose    *)
(*     domain is the set of cells holding a non-zero value: every cell     *)
(*     outside the domain holds 0.  Cells are Python ints (unbounded).     *)
(***************************************************************************)
EXTENDS Integers, Sequences, FiniteSets, TLC

VARIABLES
    source,         \* Lexer.source
    pos,            \* Lexer.pos
    char,           \* Lexer.char
    lpc,            \* where the Lexer is: "off", "make", "comment", "returned", "raised"
    tokens,         \* Lexer.tokens, then Parser.tokens (the same list object)
    list,           \* Parser.list (the tape), non-zero cells only
    pointer,        \* Parser.pointer
    current_value,  \* Parser.current_value
    pointer_tok,    \* Parser.pointer_tok
    recursion,      \* Parser.recursion
    jump_map,       \* parse()'s local jump_map
    status,         \* where the Parser is, and how its run ended
    output,         \* what print() wrote to stdout, in order
    warnings,       \* the kinds of warning warn() was called with
    bf,             \* compile()'s local bf
    cpos,           \* compile()'s local pos
    dispatched,     \* history: per token type, how many tokens parse() dispatched
    in8bit,         \* history: cells stayed in 0..255 and the pointer in 0..TAPE_SIZE-1
    bfm             \* the target tape machine running the emitted program

vars == <<source, pos, char, lpc, tokens, list, pointer, current_value,
          pointer_tok, recursion, jump_map, status, output, warnings, bf,
          cpos, dispatched, in8bit, bfm>>

lexVars == <<source, pos, char, lpc>>
parserVars == <<list, pointer, current_value, pointer_tok, recursion,
                jump_map, status, output, warnings, bf, cpos, dispatched,
                in8bit>>

-----------------------------------------------------------------------------
(* Constants of src/base.py *)

CELL_SIZE == 65536

LIMIT == 65536

TAPE_SIZE == 30000

CHR_MOD == 1114111

BYTE == 256

TT_R == "R"
TT_L == "L"
TT_DEL == "DEL"
TT_SET == "SET"
TT_INPUT == "INPUT"
TT_PRNT == "PRNT"
TT_PRNTN == "PRNTN"
TT_EXIT == "EOF"
TT_INT == "INT"
TT_PMARK == "PMARK"
TT_GOTO == "GOTO"
TT_PLUS == "PLUS"
TT_SUB == "SUB"
TT_SQLEFT == "SQLEFT"
TT_SQRIGHT == "SQRIGHT"
TT_NEWLINE == "NEWLINE"

TokenTypes == {TT_R, TT_L, TT_DEL, TT_SET, TT_INPUT, TT_PRNT, TT_PRNTN,
               TT_EXIT, TT_INT, TT_PMARK, TT_GOTO, TT_PLUS, TT_SUB,
               TT_SQLEFT, TT_SQRIGHT, TT_NEWLINE}

KEYWORDS == [SET |-> TT_SET, CLS |-> TT_DEL, PRNT |-> TT_PRNT,
             PRNTN |-> TT_PRNTN, EXIT |-> TT_EXIT, MOVR |-> TT_R,
             MOVL |-> TT_L, GOTO |-> TT_GOTO, INPUT |-> TT_INPUT,
             WHILE |-> TT_SQLEFT, END |-> TT_SQRIGHT, ADD |-> TT_PLUS,
             SUB |-> TT_SUB]

None == -1

NoChar == "None"

Token(tok_type, val) == [type |-> tok_type, val |-> val]

\* string.ascii_letters and string.digits
LowerCase == <<"a", "b", "c", "d", "e", "f", "g", "h", "i", "j", "k", "l", "m",
               "n", "o", "p", "q", "r", "s", "t", "u", "v", "w", "x", "y", "z">>
UpperCase == <<"A", "B", "C", "D", "E", "F", "G", "H", "I", "J", "K", "L", "M",
               "N", "O", "P", "Q", "R", "S", "T", "U", "V", "W", "X", "Y", "Z">>
alphabet == {LowerCase[i] : i \in DOMAIN LowerCase} \cup {UpperCase[i] : i \in DOMAIN UpperCase}
digits == {"0", "1", "2", "3", "4", "5", "6", "7", "8", "9"}

\* str.upper() on one character
Upper(c) ==
    IF \E i \in DOMAIN LowerCase : LowerCase[i] = c
    THEN UpperCase[CHOOSE i \in DOMAIN LowerCase : LowerCase[i] = c]
    ELSE c

DigitVal(c) ==
    CASE c = "0" -> 0 [] c = "1" -> 1 [] c = "2" -> 2 [] c = "3" -> 3
      [] c = "4" -> 4 [] c = "5" -> 5 [] c = "6" -> 6 [] c = "7" -> 7
      [] c = "8" -> 8 [] c = "9" -> 9

\* int(main) for a non-empty run of decimal digits
RECURSIVE ParseInt(_)
ParseInt(main) ==
    IF Len(main) = 0 THEN 0
    ELSE 10 * ParseInt(SubSeq(main, 1, Len(main) - 1)) + DigitVal(main[Len(main)])


-----------------------------------------------------------------------------
(* Bounds of the model *)

\* longest source text the lexer is run on, every text up to it being tried
MaxSrcLen == 4

\* how far Lexer.pos may run past the end of the source before the model
\* stops following a loop that no longer changes anything but pos
MaxOverrun == 2

\* the characters the lexer's sources are made of: letters spelling one
\* keyword (END, with a lower-case letter), a digit, the address mark, the
\* two separators, the comment mark, a space and a character make() skips
LexChars == {"E", "N", "d", "1", "!", ";", "\n", "#", " ", "\t"}

RECURSIVE SeqsUpTo(_, _)
SeqsUpTo(S, n) ==
    IF n = 0 THEN {<<>>}
    ELSE LET shorter == SeqsUpTo(S, n - 1)
         IN  shorter \cup {Append(s, c) : s \in {t \in shorter : Len(t) = n - 1}, c \in S}

\* every source text of at most n characters
LexSources(n) == SeqsUpTo(LexChars, n)

-----------------------------------------------------------------------------
(* Lexer *)

\* source[p] (Python, 0-based) as advance() reads it: None past the end
CharAt(src, p) == IF p < Len(src) THEN src[p + 1] ELSE NoChar

\* Lexer.advance: the position and character after one call
AdvancePos(p) == p + 1

\* the while loop of make_command: upper-cased characters are gathered up to
\* a space, ';', newline, tab, '#' or the end of the source
RECURSIVE CommandRun(_, _, _)
CommandRun(src, p, main) ==
    LET c == CharAt(src, p)
    IN  IF c \notin {" ", ";", "\n", "\t", "#"} /\ c # NoChar
        THEN CommandRun(src, AdvancePos(p), main \o Upper(c))
        ELSE [pos |-> p, main |-> main]

\* the while loop of make_number and make_number_with_pmark: a run of digits
RECURSIVE DigitRun(_, _, _)
DigitRun(src, p, main) ==
    LET c == CharAt(src, p)
    IN  IF c # NoChar /\ c \in digits
        THEN DigitRun(src, AdvancePos(p), Append(main, c))
        ELSE [pos |-> p, main |-> main]

\* make()'s loop condition
MakeLoop == lpc = "make" /\ pos <= Len(source) /\ char # NoChar

\* Lexer(code): __init__ reads source[0], and raises IndexError on ""
LexerInit(code) ==
    /\ source = code
    /\ pos = 0
    /\ tokens = <<>>
    /\ IF Len(code) > 0
       THEN char = code[1] /\ lpc = "make"
       ELSE char = NoChar /\ lpc = "raised"

\* the target machine before a program is loaded
BfOff == [st |-> "off", ip |-> 0, ptr |-> 0, tape |-> [i \in {} |-> 0], out |-> <<>>]

NoParser ==
    /\ list = [i \in {} |-> 0]
    /\ pointer = 0
    /\ current_value = 0
    /\ pointer_tok = 0
    /\ recursion = 0
    /\ jump_map = [i \in {} |-> 0]
    /\ status = "none"
    /\ output = <<>>
    /\ warnings = {}
    /\ bf = <<>>
    /\ cpos = 0
    /\ dispatched = [t \in TokenTypes |-> 0]
    /\ in8bit = TRUE
    /\ bfm = BfOff

make_command ==
    /\ MakeLoop
    /\ char \in alphabet
    /\ LET r == CommandRun(source, pos, "")
       IN  /\ pos' = r.pos
           /\ char' = CharAt(source, r.pos)
           /\ tokens' = IF r.main \in DOMAIN KEYWORDS
                        THEN Append(tokens, Token(KEYWORDS[r.main], None))
                        ELSE tokens
    /\ UNCHANGED <<source, lpc, bfm>>
    /\ UNCHANGED parserVars

make_number ==
    /\ MakeLoop
    /\ char \notin alphabet
    /\ char \in digits
    /\ LET r == DigitRun(source, pos, <<>>)
       IN  /\ pos' = AdvancePos(r.pos)
           /\ char' = CharAt(source, AdvancePos(r.pos))
           /\ tokens' = IF Len(r.main) > 0
                        THEN Append(tokens, Token(TT_INT, ParseInt(r.main)))
                        ELSE tokens
    /\ UNCHANGED <<source, lpc, bfm>>
    /\ UNCHANGED parserVars

make_newline ==
    /\ MakeLoop
    /\ char \in {";", "\n"}
    /\ tokens' = Append(tokens, Token(TT_NEWLINE, None))
    /\ pos' = AdvancePos(pos)
    /\ char' = CharAt(source, AdvancePos(pos))
    /\ UNCHANGED <<source, lpc, bfm>>
    /\ UNCHANGED parserVars

make_number_with_pmark ==
    /\ MakeLoop
    /\ char = "!"
    /\ LET r == DigitRun(source, AdvancePos(pos), <<>>)
       IN  /\ pos' = AdvancePos(r.pos)
           /\ char' = CharAt(source, AdvancePos(r.pos))
           /\ tokens' = IF Len(r.main) > 0
                        THEN Append(tokens, Token(TT_PMARK, ParseInt(r.main)))
                        ELSE tokens
    /\ UNCHANGED <<source, lpc, bfm>>
    /\ UNCHANGED parserVars

\* the branches of make() that only advance: a space, and any other character
make_skip ==
    /\ MakeLoop
    /\ char \notin alphabet \cup digits \cup {";", "\n", "!", "#"}
    /\ pos' = AdvancePos(pos)
    /\ char' = CharAt(source, AdvancePos(pos))
    /\ UNCHANGED <<source, lpc, tokens, bfm>>
    /\ UNCHANGED parserVars

\* comment_enter without its branch in make(): '#' is skipped like any other
\* character and the comment's text is scanned as code
comment_enter_skipped ==
    /\ MakeLoop
    /\ char = "#"
    /\ pos' = AdvancePos(pos)
    /\ char' = CharAt(source, AdvancePos(pos))
    /\ UNCHANGED <<source, lpc, tokens, bfm>>
    /\ UNCHANGED parserVars

\* comment(): the advance past the opening '#'
comment_enter ==
    /\ MakeLoop
    /\ char = "#"
    /\ pos' = AdvancePos(pos)
    /\ char' = CharAt(source, AdvancePos(pos))
    /\ lpc' = "comment"
    /\ UNCHANGED <<source, tokens, bfm>>
    /\ UNCHANGED parserVars

\* comment(): one turn of `while self.char not in ["\n", "#"]`.  None is not
\* in the list, so past the end of the source the loop goes on for ever.
comment_loop ==
    /\ lpc = "comment"
    /\ char \notin {"\n", "#"}
    /\ pos < Len(source) + MaxOverrun
    /\ pos' = AdvancePos(pos)
    /\ char' = CharAt(source, AdvancePos(pos))
    /\ UNCHANGED <<source, lpc, tokens, bfm>>
    /\ UNCHANGED parserVars

\* comment(): the loop's exit and the advance past the closing character
comment_exit ==
    /\ lpc = "comment"
    /\ char \in {"\n", "#"}
    /\ pos' = AdvancePos(pos)
    /\ char' = CharAt(source, AdvancePos(pos))
    /\ lpc' = "make"
    /\ UNCHANGED <<source, tokens, bfm>>
    /\ UNCHANGED parserVars

\* make_return without the closing exit token
make_return_no_exit ==
    /\ lpc = "make"
    /\ ~MakeLoop
    /\ lpc' = "returned"
    /\ UNCHANGED <<source, pos, char, tokens, bfm>>
    /\ UNCHANGED parserVars

\* make(): the loop's exit, the closing exit token and the return
make_return ==
    /\ lpc = "make"
    /\ ~MakeLoop
    /\ tokens' = Append(tokens, Token(TT_EXIT, None))
    /\ lpc' = "returned"
    /\ UNCHANGED <<source, pos, char, bfm>>
    /\ UNCHANGED parserVars

LexNext ==
    \/ make_command
    \/ make_number
    \/ make_newline
    \/ make_number_with_pmark
    \/ make_skip
    \/ comment_enter
    \/ comment_loop
    \/ comment_exit
    \/ make_return

LexInit == \E code \in LexSources(MaxSrcLen) : LexerInit(code) /\ NoParser

LexSpec == LexInit /\ [][LexNext]_vars


-----------------------------------------------------------------------------
(* Parser: the tape and the token cursor *)

\* self.list[i] for i in 0..CELL_SIZE-1
Cell(l, i) == IF i \in DOMAIN l THEN l[i] ELSE 0

\* self.list[i] = v
Store(l, i, v) ==
    [j \in (IF v = 0 THEN DOMAIN l \ {i} ELSE DOMAIN l \cup {i}) |->
        IF j = i THEN v ELSE l[j]]

\* Truthy as an `is not None` test: 0 counts as a value
Truthy_not_none(v) == v # None

\* Python's truth value of Token.val (None and 0 are false)
Truthy(v) == v # None /\ v # 0

find_value(l, ptr) == Cell(l, ptr % CELL_SIZE)

\* move_right / move_left: the new pointer
move_right(ptr) == (ptr + 1) % CELL_SIZE
move_left(ptr) == (ptr - 1) % CELL_SIZE

\* set(value, pointer): the cell written (`pointer if pointer else self.pointer`)
set_point(ptr, arg) == IF Truthy(arg) THEN arg ELSE ptr

\* set(value, pointer): the tape and the cached value after the call
set(l, ptr, value, arg) ==
    LET point == set_point(ptr, arg)
        nl == Store(l, point % CELL_SIZE, value)
    IN  [list |-> nl, current_value |-> Cell(nl, point % CELL_SIZE)]

\* reset(point)
reset(l, point) ==
    LET nl == Store(l, point % CELL_SIZE, 0)
    IN  [list |-> nl, current_value |-> Cell(nl, point % CELL_SIZE)]

\* self.tok, a view of tokens[pointer_tok]
tok == tokens[pointer_tok + 1]

\* peek_tok(): tokens[pointer_tok + 1], IndexError past the end
PeekOk == pointer_tok + 1 < Len(tokens)
peek_tok == tokens[pointer_tok + 2]

\* the operand test `nxt.val and nxt.type == TT_PMARK` of CLS, INPUT, ADD, SUB
AddressOperand(nxt) == Truthy(nxt.val) /\ nxt.type = TT_PMARK

MapPut(m, k, v) == [x \in DOMAIN m \cup {k} |-> IF x = k THEN v ELSE m[x]]

\* JumpScan pairing a loop-close with the oldest open on the stack
\* (stack.pop(0)) instead of the newest
RECURSIVE JumpScan_oldest(_, _, _, _)
JumpScan_oldest(toks, pl, stack, ret) ==
    IF pl >= Len(toks) THEN ret
    ELSE IF toks[pl + 1].type = TT_SQLEFT
         THEN JumpScan_oldest(toks, pl + 1, Append(stack, pl), ret)
    ELSE IF toks[pl + 1].type = TT_SQRIGHT /\ Len(stack) > 0
         THEN LET target == stack[1]
              IN  JumpScan_oldest(toks, pl + 1, Tail(stack),
                                  MapPut(MapPut(ret, target, pl), pl, target))
    ELSE JumpScan_oldest(toks, pl + 1, stack, ret)

\* precomp_jump: the scan from token pl on, with its stack and table
RECURSIVE JumpScan(_, _, _, _)
JumpScan(toks, pl, stack, ret) ==
    IF pl >= Len(toks) THEN ret
    ELSE IF toks[pl + 1].type = TT_SQLEFT
         THEN JumpScan(toks, pl + 1, Append(stack, pl), ret)
    ELSE IF toks[pl + 1].type = TT_SQRIGHT /\ Len(stack) > 0
         THEN LET target == stack[Len(stack)]
              IN  JumpScan(toks, pl + 1, SubSeq(stack, 1, Len(stack) - 1),
                           MapPut(MapPut(ret, target, pl), pl, target))
    ELSE JumpScan(toks, pl + 1, stack, ret)

\* precomp_jump recording only the opening side of each pair
precomp_jump_one_way(toks) ==
    LET both == JumpScan(toks, 0, <<>>, [i \in {} |-> 0])
    IN  [k \in {x \in DOMAIN both : toks[x + 1].type = TT_SQLEFT} |-> both[k]]

precomp_jump(toks) == JumpScan(toks, 0, <<>>, [i \in {} |-> 0])

\* LimitReached with the test left out
LimitReached_never(n) == FALSE

\* `if self.recursion >= self.limit` at the end of a turn of parse()'s loop
LimitReached(n) == n >= LIMIT

\* the history of the run's ranges: every cell in 0..255, the pointer on the
\* target machine's tape
InRange(l, ptr) ==
    /\ \A i \in DOMAIN l : l[i] \in 0..(BYTE - 1)
    /\ ptr \in 0..(TAPE_SIZE - 1)

\* Parser(tokens): the state __init__ leaves
ParserInit ==
    /\ list = [i \in {} |-> 0]
    /\ pointer = 0
    /\ current_value = 0
    /\ pointer_tok = 0
    /\ recursion = 0
    /\ jump_map = [i \in {} |-> 0]
    /\ status = "new"
    /\ output = <<>>
    /\ warnings = {}
    /\ bf = <<>>
    /\ cpos = 0
    /\ dispatched = [t \in TokenTypes |-> 0]
    /\ in8bit = TRUE

NoLexer ==
    /\ source = <<>>
    /\ pos = 0
    /\ char = NoChar
    /\ lpc = "off"

\* parse() is at the top of its loop with a token to dispatch.  recursion
\* never passes LIMIT (the loop breaks there); the guard keeps it bounded.
Running == status = "run" /\ recursion <= LIMIT

\* the token parse() dispatches in this turn
Dispatch(t) ==
    /\ Running
    /\ tok.type = t
    /\ dispatched' = [dispatched EXCEPT ![t] = @ + 1]

\* the end of a turn of parse()'s loop after a dispatch that left the token
\* cursor at pt: the limit test, advance_tok and the loop's own test
Advance(pt, w) ==
    /\ IF LimitReached(recursion)
       THEN /\ warnings' = w \cup {"limit"}
            /\ recursion' = recursion
            /\ pointer_tok' = pt
            /\ status' = "limit"
       ELSE /\ warnings' = w
            /\ recursion' = recursion + 1
            /\ pointer_tok' = pt + 1
            /\ status' = IF pt + 1 < Len(tokens) THEN "run" ELSE "end"
    /\ in8bit' = (in8bit /\ InRange(list', pointer'))
    /\ UNCHANGED <<jump_map, bf, cpos, bfm>>
    /\ UNCHANGED lexVars

\* the run ends in this turn: an exception leaves parse(), or exit(0)
Stop(how, w) ==
    /\ status' = how
    /\ warnings' = w
    /\ UNCHANGED <<tokens, list, pointer, current_value, pointer_tok, recursion,
                   jump_map, output, bf, cpos, in8bit, bfm>>
    /\ UNCHANGED lexVars

\* parse(): the jump table is built before the loop
parse_begin ==
    /\ status = "new"
    /\ jump_map' = precomp_jump(tokens)
    /\ status' = "run"
    /\ UNCHANGED <<tokens, list, pointer, current_value, pointer_tok, recursion,
                   output, warnings, bf, cpos, dispatched, in8bit, bfm>>
    /\ UNCHANGED lexVars

parse_SET ==
    /\ Dispatch(TT_SET)
    /\ IF ~PeekOk THEN Stop("IndexError", warnings)
       ELSE LET nxt == peek_tok
                value == IF nxt.type = TT_PMARK THEN find_value(list, nxt.val)
                         ELSE nxt.val
                r == set(list, pointer, value, None)
            IN  /\ list' = IF Truthy(nxt.val) THEN r.list ELSE list
                /\ current_value' = IF Truthy(nxt.val) THEN r.current_value
                                    ELSE current_value
                /\ UNCHANGED <<tokens, pointer, output>>
                /\ Advance(pointer_tok, warnings)

parse_R ==
    /\ Dispatch(TT_R)
    /\ pointer' = move_right(pointer)
    /\ current_value' = Cell(list, pointer')
    /\ UNCHANGED <<tokens, list, output>>
    /\ Advance(pointer_tok, warnings)

parse_L ==
    /\ Dispatch(TT_L)
    /\ pointer' = move_left(pointer)
    /\ current_value' = Cell(list, pointer')
    /\ UNCHANGED <<tokens, list, output>>
    /\ Advance(pointer_tok, warnings)

parse_DEL ==
    /\ Dispatch(TT_DEL)
    /\ IF ~PeekOk THEN Stop("IndexError", warnings)
       ELSE LET nxt == peek_tok
                point == IF AddressOperand(nxt) THEN nxt.val ELSE pointer
                r == reset(list, point)
            IN  /\ list' = r.list
                /\ current_value' = r.current_value
                /\ UNCHANGED <<tokens, pointer, output>>
                /\ Advance(pointer_tok, warnings)

\* prnt() and prntn(): the value printed
print_value(l, cv, nxt) ==
    IF nxt.type = TT_PMARK THEN find_value(l, nxt.val) ELSE cv

parse_PRNT ==
    /\ Dispatch(TT_PRNT)
    /\ IF ~PeekOk THEN Stop("IndexError", warnings)
       ELSE /\ output' = Append(output,
                   [fmt |-> "chr",
                    val |-> print_value(list, current_value, peek_tok) % CHR_MOD])
            /\ UNCHANGED <<tokens, list, pointer, current_value>>
            /\ Advance(pointer_tok, warnings)

parse_PRNTN ==
    /\ Dispatch(TT_PRNTN)
    /\ IF ~PeekOk THEN Stop("IndexError", warnings)
       ELSE /\ output' = Append(output,
                   [fmt |-> "int",
                    val |-> print_value(list, current_value, peek_tok)])
            /\ UNCHANGED <<tokens, list, pointer, current_value>>
            /\ Advance(pointer_tok, warnings)

\* goto_target taking an address marker's number as the target itself
goto_target_literal(l, nxt) ==
    IF nxt.type = TT_PMARK \/ nxt.type = TT_INT THEN nxt.val ELSE 0

\* goto(): the pointer it sets, from the peeked token after the fallback
goto_target(l, nxt) ==
    IF nxt.type = TT_PMARK THEN find_value(l, nxt.val)
    ELSE IF nxt.type = TT_INT THEN nxt.val
    ELSE 0

parse_GOTO ==
    /\ Dispatch(TT_GOTO)
    /\ IF ~PeekOk THEN Stop("IndexError", warnings)
       ELSE LET nxt == peek_tok
            IN  /\ tokens' = IF nxt.type # TT_INT /\ nxt.type # TT_PMARK
                             THEN [tokens EXCEPT ![pointer_tok + 2].val = 0]
                             ELSE tokens
                /\ pointer' = goto_target(list, nxt)
                /\ current_value' = Cell(list, pointer' % CELL_SIZE)
                /\ UNCHANGED <<list, output>>
                /\ Advance(pointer_tok, warnings)


\* sys.stdin.read(1): the ordinal of the character read, or EndOfInput for
\* the empty string read() returns at the end of the input
EndOfInput == -1

InputOrds == {0, 65}

parse_INPUT ==
    /\ Dispatch(TT_INPUT)
    /\ \E tty \in BOOLEAN, val \in InputOrds \cup {EndOfInput} :
         LET w == IF tty THEN warnings ELSE warnings \cup {"not_tty"}
         IN  IF ~PeekOk THEN Stop("IndexError", w)
             ELSE IF val = EndOfInput THEN Stop("TypeError", w)
             ELSE LET nxt == peek_tok
                      point == IF AddressOperand(nxt) THEN nxt.val ELSE None
                      r == set(list, pointer, val, point)
                  IN  /\ list' = r.list
                      /\ current_value' = r.current_value
                      /\ UNCHANGED <<tokens, pointer, output>>
                      /\ Advance(pointer_tok, w)

\* ADD and SUB: the tape and cached value after adding d to the operand cell
add(l, ptr, nxt, d) ==
    IF AddressOperand(nxt)
    THEN set(l, ptr, find_value(l, nxt.val) + d, nxt.val)
    ELSE set(l, ptr, find_value(l, ptr) + d, None)

parse_PLUS ==
    /\ Dispatch(TT_PLUS)
    /\ IF ~PeekOk THEN Stop("IndexError", warnings)
       ELSE LET r == add(list, pointer, peek_tok, 1)
            IN  /\ list' = r.list
                /\ current_value' = r.current_value
                /\ UNCHANGED <<tokens, pointer, output>>
                /\ Advance(pointer_tok, warnings)

parse_SUB ==
    /\ Dispatch(TT_SUB)
    /\ IF ~PeekOk THEN Stop("IndexError", warnings)
       ELSE LET r == add(list, pointer, peek_tok, -1)
            IN  /\ list' = r.list
                /\ current_value' = r.current_value
                /\ UNCHANGED <<tokens, pointer, output>>
                /\ Advance(pointer_tok, warnings)

\* WHILE: a zero cached value jumps to the matching END when the table has
\* one (KeyError is caught)
parse_SQLEFT ==
    /\ Dispatch(TT_SQLEFT)
    /\ UNCHANGED <<tokens, list, pointer, current_value, output>>
    /\ Advance(IF current_value = 0 /\ pointer_tok \in DOMAIN jump_map
               THEN jump_map[pointer_tok] ELSE pointer_tok, warnings)

\* END: a non-zero cached value jumps back through the table (KeyError is
\* not caught)
parse_SQRIGHT ==
    /\ Dispatch(TT_SQRIGHT)
    /\ IF current_value # 0 /\ pointer_tok \notin DOMAIN jump_map
       THEN Stop("KeyError", warnings)
       ELSE /\ UNCHANGED <<tokens, list, pointer, current_value, output>>
            /\ Advance(IF current_value # 0 THEN jump_map[pointer_tok]
                       ELSE pointer_tok, warnings)

\* EXIT and the closing exit token: exit(0)
parse_EXIT ==
    /\ Dispatch(TT_EXIT)
    /\ Stop("exit", warnings)

\* integer literals, address markers and separators match no branch
parse_other ==
    /\ Running
    /\ tok.type \in {TT_INT, TT_PMARK, TT_NEWLINE}
    /\ dispatched' = [dispatched EXCEPT ![tok.type] = @ + 1]
    /\ UNCHANGED <<tokens, list, pointer, current_value, output>>
    /\ Advance(pointer_tok, warnings)

ParseNext ==
    \/ parse_begin
    \/ parse_SET
    \/ parse_R
    \/ parse_L
    \/ parse_DEL
    \/ parse_PRNT
    \/ parse_PRNTN
    \/ parse_GOTO
    \/ parse_INPUT
    \/ parse_PLUS
    \/ parse_SUB
    \/ parse_SQLEFT
    \/ parse_SQRIGHT
    \/ parse_EXIT
    \/ parse_other

-----------------------------------------------------------------------------
(* The programs the tape machine is run on *)

\* longest program (tokens before the closing exit token) of the family in
\* which every sequence of tokens is tried
MaxProgLen == 3

\* the tokens programs are made of: every keyword, and integer literals and
\* address markers with the value zero and a value past the tape's length
\* (the separator token is dispatched like a literal, and peeked like a
\* keyword)
ProgTokens ==
    {Token(t, None) : t \in TokenTypes \ {TT_INT, TT_PMARK, TT_NEWLINE}}
    \cup {Token(TT_INT, n) : n \in {0, CELL_SIZE + 1}}
    \cup {Token(TT_PMARK, n) : n \in {0, CELL_SIZE + 1}}

\* a WHILE before an END: the program has a loop it may go round
HasLoop(p) ==
    \E i, j \in DOMAIN p : i < j /\ p[i].type = TT_SQLEFT /\ p[j].type = TT_SQRIGHT

T(t) == Token(t, None)
I(n) == Token(TT_INT, n)
A(n) == Token(TT_PMARK, n)

\* programs with a loop, written out: a loop that ends, loops that never end
\* (stopped by the step limit), loops entered or left on a cell written
\* through an address operand, nested loops
LoopPrograms ==
    {<<T(TT_SET), I(n), T(TT_SQLEFT), T(TT_SUB), T(TT_SQRIGHT), T(TT_PRNTN)>> : n \in 1..2}
    \cup
    {<<T(TT_PLUS), T(TT_SQLEFT), T(TT_SQRIGHT)>>,
     <<T(TT_SQLEFT), T(TT_PLUS), T(TT_SQRIGHT), T(TT_PRNTN)>>,
     <<T(TT_PLUS), A(1), T(TT_SQLEFT), T(TT_R), T(TT_SQRIGHT)>>,
     <<T(TT_PLUS), T(TT_SQLEFT), T(TT_DEL), A(1), T(TT_SQRIGHT)>>,
     <<T(TT_PLUS), T(TT_SQLEFT), T(TT_SQLEFT), T(TT_SUB), T(TT_SQRIGHT), T(TT_SQRIGHT)>>,
     <<T(TT_INPUT), T(TT_SQLEFT), T(TT_SUB), A(1), T(TT_SQRIGHT)>>}

\* longer programs without a loop, written out: instructions dispatched with
\* the pointer past the tape's length or below 0 (goto does not wrap it), and
\* after a write through an address operand
WrittenPrograms ==
    {<<T(TT_PLUS), T(TT_GOTO), I(CELL_SIZE + 1), T(TT_SET), I(0), T(TT_PRNTN)>>,
     <<T(TT_GOTO), I(CELL_SIZE + 1), T(TT_PLUS), T(TT_SET), I(0), T(TT_PRNTN)>>,
     <<T(TT_GOTO), I(CELL_SIZE + 1), T(TT_SET), I(CELL_SIZE + 1), T(TT_R), T(TT_PRNT)>>,
     <<T(TT_SUB), T(TT_GOTO), A(0), T(TT_SET), I(CELL_SIZE + 1), T(TT_L)>>,
     <<T(TT_PLUS), A(CELL_SIZE + 1), T(TT_SET), I(0), T(TT_PRNTN), A(CELL_SIZE + 1)>>,
     <<T(TT_PLUS), T(TT_R), T(TT_SET), A(0), T(TT_PRNTN)>>,
     <<T(TT_PLUS), T(TT_R), T(TT_SET), A(CELL_SIZE), T(TT_PRNTN)>>,
     <<T(TT_PLUS), T(TT_SET), A(CELL_SIZE + 1), T(TT_PRNTN)>>}

\* every token sequence make() can return ends with the exit token it
\* appends: the programs of at most n tokens without a loop, the longer ones
\* written out, and the loops
Programs(n) ==
    {Append(p, Token(TT_EXIT, None)) :
        p \in {q \in SeqsUpTo(ProgTokens, n) : ~HasLoop(q)}
              \cup WrittenPrograms \cup LoopPrograms}

Init ==
    /\ \E p \in Programs(MaxProgLen) : tokens = p
    /\ NoLexer
    /\ ParserInit
    /\ bfm = BfOff

Next == ParseNext

Spec == Init /\ [][Next]_vars

\* the interpreter is a running process: it takes its next step.  Liveness
\* is checked on the loops and on the programs one token shorter.
FairInit ==
    /\ \E p \in Programs(MaxProgLen - 1) : tokens = p
    /\ NoLexer
    /\ ParserInit
    /\ bfm = BfOff

FairSpec == FairInit /\ [][Next]_vars /\ WF_vars(Next)


-----------------------------------------------------------------------------
(* Parser.compile: the transpiler *)

\* c * n
Rep(c, n) == [i \in 1..n |-> c]

\* Overrun with the bound off by one
Overrun_past(p) == p > TAPE_SIZE

\* the tape-bound tests at the end of a turn of compile()'s loop
Underrun(p) == p < 0
Overrun(p) == p >= TAPE_SIZE

\* compile() is at the top of its loop with a token to translate
Compiling(t) ==
    /\ status = "compile"
    /\ tok.type = t

\* CompileAdvance keeping the offset in self.pointer, as the moves of parse()
\* do, and refreshing the cached value
CompileAdvance_on_pointer(nbf, np, w) ==
    /\ warnings' = w
    /\ cpos' = np
    /\ pointer' = np
    /\ current_value' = Cell(list, np % CELL_SIZE)
    /\ IF Underrun(np)
       THEN status' = "underrun" /\ UNCHANGED <<bf, recursion, pointer_tok>>
       ELSE IF Overrun(np)
       THEN status' = "overrun" /\ UNCHANGED <<bf, recursion, pointer_tok>>
       ELSE /\ bf' = nbf
            /\ recursion' = recursion + 1
            /\ pointer_tok' = pointer_tok + 1
            /\ status' = IF pointer_tok + 1 < Len(tokens) THEN "compile"
                         ELSE "returned"
    /\ UNCHANGED <<tokens, list, jump_map, output, dispatched, in8bit, bfm>>
    /\ UNCHANGED lexVars

\* the end of a turn of compile()'s loop with text nbf and offset np: the
\* bound tests, advance_tok and the loop's own test
CompileAdvance(nbf, np, w) ==
    /\ warnings' = w
    /\ cpos' = np
    /\ IF Underrun(np)
       THEN status' = "underrun" /\ UNCHANGED <<bf, recursion, pointer_tok>>
       ELSE IF Overrun(np)
       THEN status' = "overrun" /\ UNCHANGED <<bf, recursion, pointer_tok>>
       ELSE /\ bf' = nbf
            /\ recursion' = recursion + 1
            /\ pointer_tok' = pointer_tok + 1
            /\ status' = IF pointer_tok + 1 < Len(tokens) THEN "compile"
                         ELSE "returned"
    /\ UNCHANGED <<tokens, list, pointer, current_value, jump_map, output,
                   dispatched, in8bit, bfm>>
    /\ UNCHANGED lexVars

\* peek_tok() raised IndexError in compile()
CompileStop(how) ==
    /\ status' = how
    /\ UNCHANGED <<tokens, list, pointer, current_value, pointer_tok, recursion,
                   jump_map, output, warnings, bf, cpos, dispatched, in8bit, bfm>>
    /\ UNCHANGED lexVars

\* the warning of an operand compile() has no translation for
Unsupported(nxt) ==
    IF nxt.type = TT_PMARK THEN warnings \cup {"no_equivalent"} ELSE warnings

\* CLS, PRNT, INPUT, ADD, SUB: the peek, the warning for an address operand,
\* and the text emitted whatever the operand is
EmitWithOperand(text) ==
    IF ~PeekOk THEN CompileStop("IndexError")
    ELSE CompileAdvance(bf \o text, cpos, Unsupported(peek_tok))

compile_begin ==
    /\ status = "new"
    /\ bf' = <<>>
    /\ cpos' = 0
    /\ status' = "compile"
    /\ UNCHANGED <<tokens, list, pointer, current_value, pointer_tok, recursion,
                   jump_map, output, warnings, dispatched, in8bit, bfm>>
    /\ UNCHANGED lexVars

compile_SET ==
    /\ Compiling(TT_SET)
    /\ IF ~PeekOk THEN CompileStop("IndexError")
       ELSE LET nxt == peek_tok
            IN  CompileAdvance(
                    IF nxt.type = TT_INT
                    THEN bf \o <<"[", "-", "]">> \o Rep("+", nxt.val % BYTE)
                    ELSE bf,
                    cpos, Unsupported(nxt))

compile_R ==
    /\ Compiling(TT_R)
    /\ CompileAdvance(bf \o <<">">>, cpos + 1, warnings)

compile_L ==
    /\ Compiling(TT_L)
    /\ CompileAdvance(bf \o <<"<">>, cpos - 1, warnings)

compile_PRNT ==
    /\ Compiling(TT_PRNT)
    /\ EmitWithOperand(<<".">>)

\* GOTO with an integer literal: the moves from offset p to val
goto_moves(p, val) ==
    IF val - p > 0 THEN Rep(">", val - p)
    ELSE IF val - p < 0 THEN Rep("<", p - val)
    ELSE <<>>

compile_GOTO ==
    /\ Compiling(TT_GOTO)
    /\ IF ~PeekOk THEN CompileStop("IndexError")
       ELSE LET nxt == peek_tok
            IN  IF nxt.type = TT_INT
                THEN CompileAdvance(bf \o goto_moves(cpos, nxt.val), nxt.val, warnings)
                ELSE CompileAdvance(bf, cpos, Unsupported(nxt))

compile_PRNTN ==
    /\ Compiling(TT_PRNTN)
    /\ CompileAdvance(bf, cpos, warnings \cup {"no_equivalent"})

compile_DEL ==
    /\ Compiling(TT_DEL)
    /\ EmitWithOperand(<<"[", "-", "]">>)

compile_INPUT ==
    /\ Compiling(TT_INPUT)
    /\ EmitWithOperand(<<",">>)

compile_PLUS ==
    /\ Compiling(TT_PLUS)
    /\ EmitWithOperand(<<"+">>)

compile_SUB ==
    /\ Compiling(TT_SUB)
    /\ EmitWithOperand(<<"-">>)

compile_SQLEFT ==
    /\ Compiling(TT_SQLEFT)
    /\ CompileAdvance(bf \o <<"[">>, cpos, warnings)

compile_SQRIGHT ==
    /\ Compiling(TT_SQRIGHT)
    /\ CompileAdvance(bf \o <<"]">>, cpos, warnings)

\* the exit token, literals, address markers and separators: `else: pass`
compile_other ==
    /\ status = "compile"
    /\ tok.type \in {TT_EXIT, TT_INT, TT_PMARK, TT_NEWLINE}
    /\ CompileAdvance(bf, cpos, warnings)

CompileNext ==
    \/ compile_begin
    \/ compile_SET
    \/ compile_R
    \/ compile_L
    \/ compile_PRNT
    \/ compile_GOTO
    \/ compile_PRNTN
    \/ compile_DEL
    \/ compile_INPUT
    \/ compile_PLUS
    \/ compile_SUB
    \/ compile_SQLEFT
    \/ compile_SQRIGHT
    \/ compile_other

\* the programs compile() is run on: every token sequence up to MaxProgLen,
\* with literals at the edge of the target tape, so that a move or a goto
\* lands on the last cell, one past it, or before the first
CompileTokens ==
    {Token(t, None) : t \in TokenTypes \ {TT_INT, TT_PMARK, TT_NEWLINE}}
    \cup {I(2), I(TAPE_SIZE - 1), I(TAPE_SIZE), A(1)}

CompilePrograms(n) ==
    {Append(p, Token(TT_EXIT, None)) : p \in SeqsUpTo(CompileTokens, n)}

CompileInit ==
    /\ \E p \in CompilePrograms(MaxProgLen) : tokens = p
    /\ NoLexer
    /\ ParserInit
    /\ bfm = BfOff

CompileSpec == CompileInit /\ [][CompileNext]_vars


-----------------------------------------------------------------------------
(* The whole run: a source text is lexed, then interpreted *)

\* str(n) for a natural n
DigitChar(d) == CHOOSE c \in digits : DigitVal(c) = d

RECURSIVE Str(_)
Str(n) == IF n < 10 THEN <<DigitChar(n)>> ELSE Append(Str(n \div 10), DigitChar(n % 10))

\* largest N of the loop program SET N;WHILE;SUB;END
MaxLoopCount == 3

\* SET N;WHILE;SUB;END
LoopSource(n) ==
    <<"S", "E", "T", " ">> \o Str(n)
    \o <<";", "W", "H", "I", "L", "E", ";", "S", "U", "B", ";", "E", "N", "D">>

\* values and addresses of the direct-addressing program: small ones, the
\* last cell, and addresses at and past the tape's length
DirectVals == {1, 5, CELL_SIZE, CELL_SIZE + 5}
DirectAddrs == {1, 10, CELL_SIZE - 1, CELL_SIZE, CELL_SIZE + 1, 2 * CELL_SIZE}

\* SET v !a;GOTO !a;PRNTN
DirectSource(v, a) ==
    <<"S", "E", "T", " ">> \o Str(v) \o <<" ", "!">> \o Str(a)
    \o <<";", "G", "O", "T", "O", " ", "!">> \o Str(a)
    \o <<";", "P", "R", "N", "T", "N">>

\* a program using the remaining keywords, in mixed case, after a comment
DemoSource ==
    <<"#", "x", "#", "i", "n", "p", "u", "t", ";", "A", "d", "d", ";",
      "M", "O", "V", "R", ";", "c", "l", "s", ";", "m", "o", "v", "l", ";",
      "P", "R", "N", "T", ";", "e", "x", "i", "t">>

PipeSources ==
    {LoopSource(n) : n \in 1..MaxLoopCount}
    \cup {DirectSource(v, a) : v \in DirectVals, a \in DirectAddrs}
    \cup {DemoSource}

\* Parser(tokens) on the list make() returned
parser_new ==
    /\ lpc = "returned"
    /\ status = "none"
    /\ status' = "new"
    /\ UNCHANGED <<tokens, list, pointer, current_value, pointer_tok, recursion,
                   jump_map, output, warnings, bf, cpos, dispatched, in8bit, bfm>>
    /\ UNCHANGED lexVars

PipeInit == \E code \in PipeSources : LexerInit(code) /\ NoParser

PipeNext == LexNext \/ parser_new \/ ParseNext

PipeSpec == PipeInit /\ [][PipeNext]_vars


-----------------------------------------------------------------------------
(* Interpreting a program, then transpiling it and running the emitted text *)
(* on the target machine: an 8-symbol tape machine with TAPE_SIZE cells of *)
(* 8 bits                                                                  *)

\* the index of the bracket matching the one at i, scanning in direction d
RECURSIVE BfMatch(_, _, _, _)
BfMatch(prog, i, d, depth) ==
    LET j == i + d
        nd == IF prog[j] = (IF d = 1 THEN "[" ELSE "]") THEN depth + 1
              ELSE IF prog[j] = (IF d = 1 THEN "]" ELSE "[") THEN depth - 1
              ELSE depth
    IN  IF nd = 0 THEN j ELSE BfMatch(prog, j, d, nd)

\* one step of the target machine on program prog
BfStep(m, prog) ==
    IF m.ip > Len(prog) THEN [m EXCEPT !.st = "halted"]
    ELSE LET c == prog[m.ip]
             v == Cell(m.tape, m.ptr)
         IN  CASE c = ">" -> IF m.ptr + 1 >= TAPE_SIZE THEN [m EXCEPT !.st = "fault"]
                             ELSE [m EXCEPT !.ptr = @ + 1, !.ip = @ + 1]
               [] c = "<" -> IF m.ptr = 0 THEN [m EXCEPT !.st = "fault"]
                             ELSE [m EXCEPT !.ptr = @ - 1, !.ip = @ + 1]
               [] c = "+" -> [m EXCEPT !.tape = Store(@, m.ptr, (v + 1) % BYTE), !.ip = @ + 1]
               [] c = "-" -> [m EXCEPT !.tape = Store(@, m.ptr, (v - 1) % BYTE), !.ip = @ + 1]
               [] c = "." -> [m EXCEPT !.out = Append(@, v), !.ip = @ + 1]
               [] c = "[" -> [m EXCEPT !.ip = IF v = 0 THEN BfMatch(prog, m.ip, 1, 1) + 1
                                              ELSE @ + 1]
               [] c = "]" -> [m EXCEPT !.ip = IF v # 0 THEN BfMatch(prog, m.ip, -1, 1) + 1
                                              ELSE @ + 1]
               [] OTHER -> [m EXCEPT !.ip = @ + 1]

\* the program's second run, after the interpreter left by the exit token:
\* Parser(tokens) again, and compile() entered
transpile_after_run ==
    /\ status = "exit"
    /\ bfm.st = "off"
    /\ list' = [i \in {} |-> 0]
    /\ pointer' = 0
    /\ current_value' = 0
    /\ pointer_tok' = 0
    /\ recursion' = 0
    /\ bf' = <<>>
    /\ cpos' = 0
    /\ status' = "compile"
    /\ UNCHANGED <<tokens, jump_map, output, warnings, dispatched, in8bit, bfm>>
    /\ UNCHANGED lexVars

\* the emitted program is loaded on the target machine
bf_load ==
    /\ status = "returned"
    /\ bfm.st = "off"
    /\ bfm' = [BfOff EXCEPT !.st = "run", !.ip = 1]
    /\ UNCHANGED <<tokens>>
    /\ UNCHANGED parserVars
    /\ UNCHANGED lexVars

bf_step ==
    /\ bfm.st = "run"
    /\ bfm' = BfStep(bfm, bf)
    /\ UNCHANGED <<tokens>>
    /\ UNCHANGED parserVars
    /\ UNCHANGED lexVars

\* most instructions of a program of the family in which every sequence of
\* instructions is tried
MaxEquivLen == 3

\* the instructions with a target equivalent: no address marker, literals in
\* 0..255, goto with a literal
EquivInstrs ==
    {<<T(t)>> : t \in {TT_R, TT_L, TT_DEL, TT_PRNT, TT_PLUS, TT_SUB, TT_NEWLINE}}
    \cup {<<T(TT_SET), I(n)>> : n \in {0, 2}}
    \cup {<<T(TT_GOTO), I(n)>> : n \in {0, 1}}

RECURSIVE Flatten(_)
Flatten(ss) == IF Len(ss) = 0 THEN <<>> ELSE Head(ss) \o Flatten(Tail(ss))

EquivLoops ==
    {<<T(TT_SET), I(2), T(TT_SQLEFT), T(TT_PRNT), T(TT_SUB), T(TT_SQRIGHT)>>,
     <<T(TT_SQLEFT), T(TT_PLUS), T(TT_SQRIGHT), T(TT_PRNT)>>,
     <<T(TT_PLUS), T(TT_SQLEFT), T(TT_R), T(TT_SQRIGHT), T(TT_PRNT)>>}

EquivPrograms(n) ==
    {Append(p, Token(TT_EXIT, None)) :
        p \in {Flatten(ss) : ss \in SeqsUpTo(EquivInstrs, n)} \cup EquivLoops}

EquivInit ==
    /\ \E p \in EquivPrograms(MaxEquivLen) : tokens = p
    /\ NoLexer
    /\ ParserInit
    /\ bfm = BfOff

EquivNext ==
    \/ parse_begin
    \/ parse_SET
    \/ parse_R
    \/ parse_L
    \/ parse_DEL
    \/ parse_PRNT
    \/ parse_GOTO
    \/ parse_PLUS
    \/ parse_SUB
    \/ parse_SQLEFT
    \/ parse_SQRIGHT
    \/ parse_EXIT
    \/ parse_other
    \/ transpile_after_run
    \/ compile_SET
    \/ compile_R
    \/ compile_L
    \/ compile_PRNT
    \/ compile_GOTO
    \/ compile_DEL
    \/ compile_PLUS
    \/ compile_SUB
    \/ compile_SQLEFT
    \/ compile_SQRIGHT
    \/ compile_other
    \/ bf_load
    \/ bf_step

EquivSpec == EquivInit /\ [][EquivNext]_vars

-----------------------------------------------------------------------------
(* The jump table on programs made of loop brackets *)

\* longest bracket program, every sequence up to it being tried
MaxJumpLen == 5

\* loop-open, loop-close and a move: on the all-zero tape no loop is entered
\* and no loop-close jumps, so every run reaches the exit token
JumpTokens == {T(TT_SQLEFT), T(TT_SQRIGHT), T(TT_R)}

JumpPrograms(n) ==
    {Append(p, Token(TT_EXIT, None)) : p \in SeqsUpTo(JumpTokens, n)}

JumpInit ==
    /\ \E p \in JumpPrograms(MaxJumpLen) : tokens = p
    /\ NoLexer
    /\ ParserInit
    /\ bfm = BfOff

JumpNext ==
    \/ parse_begin
    \/ parse_SQLEFT
    \/ parse_SQRIGHT
    \/ parse_R
    \/ parse_EXIT

JumpSpec == JumpInit /\ [][JumpNext]_vars

-----------------------------------------------------------------------------
(* Either back end on what the lexer returns *)

\* sources whose last keyword takes an operand, so that its lookahead meets
\* the closing exit token; the last one after a loop-open with no partner
OperandSources ==
    {<<"S", "E", "T">>, <<"C", "L", "S">>, <<"P", "R", "N", "T">>,
     <<"P", "R", "N", "T", "N">>, <<"G", "O", "T", "O">>,
     <<"I", "N", "P", "U", "T">>, <<"A", "D", "D">>, <<"S", "U", "B">>,
     <<"A", "D", "D", ";", "W", "H", "I", "L", "E", ";", "S", "U", "B", ";",
       "E", "N", "D", ";", "S", "E", "T">>,
     <<"W", "H", "I", "L", "E", ";", "A", "D", "D">>}

RunSources ==
    LexSources(MaxSrcLen - 1) \cup PipeSources \cup OperandSources

\* a run starts with the lexer on a source text, or with a Parser on a token
\* sequence of the kind make() returns
RunInit ==
    \/ \E code \in RunSources : LexerInit(code) /\ NoParser
    \/ Init

\* parse() or compile() is entered on the new Parser
RunNext == LexNext \/ parser_new \/ ParseNext \/ CompileNext

RunSpec == RunInit /\ [][RunNext]_vars

-----------------------------------------------------------------------------
(* Claims *)

RECURSIVE SumOver(_, _)
SumOver(f, S) ==
    IF S = {} THEN 0
    ELSE LET x == CHOOSE y \in S : TRUE IN f[x] + SumOver(f, S \ {x})

\* the run of parse() or compile() is over
Halted == status \notin {"none", "new", "run", "compile"}

\* C1: for every source text, Lexer(code).make() terminates and returns a
\* token sequence without raising; the empty source and a source whose '#'
\* comment is never closed included.  As a safety property: the constructor
\* never raises, and the lexer is never inside comment()'s loop with the
\* source used up (from there char stays None, which is neither "\n" nor "#",
\* so the loop has no exit and make() does not return).
C1_MakeAlwaysReturns ==
    /\ lpc # "raised"
    /\ ~(lpc = "comment" /\ char = NoChar)

\* the code points print-char wrote
PrintedCodes == [i \in DOMAIN output |-> output[i].val]

\* C2: for a program using only features with a target equivalent, whose
\* interpreted run ended before the step limit (here: on the exit token) with
\* every cell in 0..255 and the pointer in 0..TAPE_SIZE-1 throughout, the
\* emitted program run on the target machine prints exactly what parse()
\* printed
C2_TranspilerEquivalence ==
    (bfm.st = "halted" /\ in8bit) => bfm.out = PrintedCodes


\* the offset the claim C3 defines, after the first k tokens: 0 at the start,
\* +1 per move-right, -1 per move-left, N at a goto followed by the literal N
RECURSIVE OffsetAfter(_, _)
OffsetAfter(toks, k) ==
    IF k = 0 THEN 0
    ELSE IF toks[k].type = TT_R THEN OffsetAfter(toks, k - 1) + 1
    ELSE IF toks[k].type = TT_L THEN OffsetAfter(toks, k - 1) - 1
    ELSE IF toks[k].type = TT_GOTO /\ k < Len(toks) /\ toks[k + 1].type = TT_INT
         THEN toks[k + 1].val
    ELSE OffsetAfter(toks, k - 1)

OffsetBad(toks, k) == OffsetAfter(toks, k) < 0 \/ OffsetAfter(toks, k) >= TAPE_SIZE

\* C3: compile() returns a program exactly when the offset is in
\* [0, TAPE_SIZE) after every token; otherwise it aborts at the first token
\* that leaves the offset out of range, with the underrun error when the
\* offset is below 0 and the overrun error when it is TAPE_SIZE or more; it
\* ends in no other way, and while it runs no offset so far was out of range.
C3_BoundCheck ==
    /\ status = "returned" => \A k \in 1..Len(tokens) : ~OffsetBad(tokens, k)
    /\ status = "compile" => \A k \in 1..pointer_tok : ~OffsetBad(tokens, k)
    /\ status \in {"underrun", "overrun"} =>
          /\ \A k \in 1..pointer_tok : ~OffsetBad(tokens, k)
          /\ OffsetBad(tokens, pointer_tok + 1)
          /\ (status = "underrun") = (OffsetAfter(tokens, pointer_tok + 1) < 0)
    /\ status \in {"new", "compile", "returned", "underrun", "overrun"}

\* C3's case: a move-right from the last cell aborts with the overrun error
C3_Witness ==
    /\ status = "overrun"
    /\ tok.type = TT_R
    /\ OffsetAfter(tokens, pointer_tok) = TAPE_SIZE - 1

\* C4: interpreting SET N;WHILE;SUB;END from the all-zero tape dispatches
\* the minus-one token exactly N times (never more on the way), leaves the
\* current cell at 0 and ends on the exit token
C4_LoopRoundTrip ==
    \A n \in 1..MaxLoopCount :
        source = LoopSource(n) =>
            /\ dispatched[TT_SUB] <= n
            /\ Halted => /\ status = "exit"
                         /\ dispatched[TT_SUB] = n
                         /\ find_value(list, pointer) = 0

C4_Witness ==
    /\ source = LoopSource(MaxLoopCount)
    /\ status = "exit"
    /\ dispatched[TT_SUB] = MaxLoopCount

\* C5: dispatching a set-cell token whose next token is the integer literal N
\* leaves the current cell equal to N when N # 0 and unchanged when N = 0,
\* and every other cell and the pointer unchanged
C5_SetLiteral ==
    [][(status = "run" /\ tok.type = TT_SET /\ PeekOk /\ peek_tok.type = TT_INT) =>
          LET n == peek_tok.val
              cur == pointer % CELL_SIZE
          IN  /\ Cell(list', cur) = IF n # 0 THEN n ELSE Cell(list, cur)
              /\ \A i \in (DOMAIN list \cup DOMAIN list') \ {cur} :
                     Cell(list', i) = Cell(list, i)
              /\ pointer' = pointer]_vars

\* C5's case: SET 0 has just been dispatched on a cell holding a non-zero value
C5_Witness ==
    /\ status = "run"
    /\ pointer_tok >= 1
    /\ tokens[pointer_tok].type = TT_SET
    /\ tok = Token(TT_INT, 0)
    /\ find_value(list, pointer) # 0

\* C6: a run of parse() ends only by the exit token, by running past the
\* end, by the step-limit warning or by the operand-starved lookup error; in
\* particular a loop-close token with no jump-table entry is tolerated
\* whatever the current cell holds.  The formula states that clause: no run
\* ends on the KeyError of the jump-table lookup.
C6_UnmatchedCloseTolerated == status # "KeyError"

\* C7: no run of parse() dispatches more than LIMIT tokens
C7_AtMostLimitDispatches == SumOver(dispatched, TokenTypes) <= LIMIT

\* C8: every run of parse() eventually halts (exit, the step-limit stop, or
\* an error), each input read returning a character or the end of input
C8_ParseHalts == <>Halted

\* C8's case: a loop whose cell never reaches 0 was stopped by the limit
C8_Witness == status = "limit" /\ pointer_tok \in DOMAIN jump_map /\ current_value # 0

\* the single integer print of v
PrintsInt(v) == output = <<[fmt |-> "int", val |-> v]>>

\* C9 as stated: for every non-zero v and address a # 0, interpreting
\* SET v !a;GOTO !a;PRNTN from the all-zero tape prints exactly v
C9_DirectAddressing ==
    \A v \in DirectVals, a \in DirectAddrs :
        (v # 0 /\ a # 0 /\ source = DirectSource(v, a) /\ Halted) => PrintsInt(v)

\* C9 amended: the same for every address a that is not a multiple of the
\* tape length (a mod CELL_SIZE # 0); the run ends on the exit token
C9_DirectAddressingOffZero ==
    \A v \in DirectVals, a \in DirectAddrs :
        (v # 0 /\ a % CELL_SIZE # 0 /\ source = DirectSource(v, a) /\ Halted) =>
            status = "exit" /\ PrintsInt(v)

C9_Witness ==
    /\ source = DirectSource(5, 10)
    /\ status = "exit"
    /\ PrintsInt(5)

\* the source from position i (1-based) on is made only of spaces, runs of
\* letters that are not keywords, and '#' comments (up to the next '#' or
\* newline, or to the end of the text)
RECURSIVE LetterRunEnd(_, _)
LetterRunEnd(src, i) ==
    IF i <= Len(src) /\ src[i] \in alphabet THEN LetterRunEnd(src, i + 1) ELSE i

RECURSIVE CommentEnd(_, _)
CommentEnd(src, i) ==
    IF i > Len(src) THEN i
    ELSE IF src[i] \in {"#", "\n"} THEN i + 1
    ELSE CommentEnd(src, i + 1)

RECURSIVE UpperWord(_, _, _)
UpperWord(src, i, j) ==
    IF i >= j THEN "" ELSE Upper(src[i]) \o UpperWord(src, i + 1, j)

RECURSIVE SkippableFrom(_, _)
SkippableFrom(src, i) ==
    IF i > Len(src) THEN TRUE
    ELSE IF src[i] = " " THEN SkippableFrom(src, i + 1)
    ELSE IF src[i] = "#" THEN SkippableFrom(src, CommentEnd(src, i + 1))
    ELSE IF src[i] \in alphabet
         THEN /\ UpperWord(src, i, LetterRunEnd(src, i)) \notin DOMAIN KEYWORDS
              /\ SkippableFrom(src, LetterRunEnd(src, i))
    ELSE FALSE

\* C10: for every source made only of skippable characters, the token
\* sequence make() returns holds exactly one token, the exit token
C10_SkippableOnlyExit ==
    (lpc = "returned" /\ SkippableFrom(source, 1)) => tokens = <<Token(TT_EXIT, None)>>

\* C10's case: a letter run, a space and a comment closed by a newline
C10_Witness ==
    /\ lpc = "returned"
    /\ source = <<"E", " ", "#", "\n">>
    /\ SkippableFrom(source, 1)
    /\ Len(tokens) = 1

\* C11: compile() never writes the tape, the pointer or the cached value (nor
\* the token list, the jump table or stdout): every step of a transpilation
\* leaves them as they were, so that during and after it, returned or aborted,
\* every cell is still 0, the pointer 0 and the cached value 0
C11_CompileFrame ==
    [][/\ UNCHANGED <<list, pointer, current_value, tokens, jump_map, output>>
       /\ list' = [i \in {} |-> 0]
       /\ pointer' = 0
       /\ current_value' = 0]_vars

\* C11's case: a transpilation that emitted moves to the last cell of the
\* target tape and returned
C11_Witness ==
    /\ status = "returned"
    /\ cpos = TAPE_SIZE - 1
    /\ Len(bf) >= TAPE_SIZE - 1
    /\ pointer = 0

\* the dispatch of a bracket token at pointer_tok took the jump-table entry:
\* the token cursor is past the partner, or on it when the limit stopped the
\* run in this turn
Jumped ==
    IF status' = "limit" THEN pointer_tok' = jump_map[pointer_tok]
    ELSE pointer_tok' = jump_map[pointer_tok] + 1

\* C12: in every reachable state, a loop-close token with a partner jumps
\* back exactly when tape[pointer mod CELL_SIZE] # 0, and a loop-open token
\* with a partner jumps exactly when tape[pointer mod CELL_SIZE] = 0, also
\* right after an instruction that wrote another cell through an address
\* operand
C12_LoopTestsReadCell ==
    [][(status = "run" /\ tok.type \in {TT_SQLEFT, TT_SQRIGHT}
           /\ pointer_tok \in DOMAIN jump_map) =>
          IF tok.type = TT_SQRIGHT
          THEN Jumped <=> (find_value(list, pointer) # 0)
          ELSE Jumped <=> (find_value(list, pointer) = 0)]_vars

\* C13: print-number and print-char output tape[a mod CELL_SIZE] when the
\* next token is the address marker !a (a = 0 included), and otherwise the
\* current cell tape[pointer mod CELL_SIZE] (print-char: as a code point),
\* whatever was dispatched before
C13_PrintOperand ==
    [][(status = "run" /\ tok.type \in {TT_PRNT, TT_PRNTN} /\ PeekOk) =>
          LET v == IF peek_tok.type = TT_PMARK THEN find_value(list, peek_tok.val)
                   ELSE find_value(list, pointer)
          IN  output' = Append(output,
                  IF tok.type = TT_PRNTN THEN [fmt |-> "int", val |-> v]
                  ELSE [fmt |-> "chr", val |-> v % CHR_MOD])]_vars

\* C14: dispatching a set-cell token whose next token is the address marker
\* !a writes the value held by cell a mod CELL_SIZE into the current cell, for
\* every a (0 included) and also when that cell holds 0
C14_SetAddressOperand ==
    [][(status = "run" /\ tok.type = TT_SET /\ PeekOk /\ peek_tok.type = TT_PMARK) =>
          find_value(list', pointer) = find_value(list, peek_tok.val)]_vars

\* C15: the interpreter's pointer is always in 0..CELL_SIZE-1, whatever
\* moves and gotos were dispatched
C15_PointerInRange == pointer \in 0..(CELL_SIZE - 1)

\* C19: whenever parse() is about to dispatch a token, the cached
\* current_value equals tape[pointer mod CELL_SIZE]
C19_CacheCoherent ==
    status = "run" => current_value = find_value(list, pointer)

\* the tokens at indices a..b (0-based) are balanced, read from depth d: no
\* loop-close without an open before it, and every open closed
RECURSIVE Balanced(_, _, _, _)
Balanced(toks, a, b, d) ==
    IF a > b THEN d = 0
    ELSE IF toks[a + 1].type = TT_SQLEFT THEN Balanced(toks, a + 1, b, d + 1)
    ELSE IF toks[a + 1].type = TT_SQRIGHT THEN d > 0 /\ Balanced(toks, a + 1, b, d - 1)
    ELSE Balanced(toks, a + 1, b, d)

\* the loop-open at i and the loop-close at j are partners
Partners(toks, i, j) ==
    /\ i < j
    /\ toks[i + 1].type = TT_SQLEFT
    /\ toks[j + 1].type = TT_SQRIGHT
    /\ Balanced(toks, i + 1, j - 1, 0)

\* C16: the table precomp_jump() built is an involution whose keys are
\* indices of loop-open and loop-close tokens only; a loop-open key maps to a
\* larger loop-close index with balanced tokens between them (and a
\* loop-close key to its loop-open); every pair of partners is in the table,
\* so that only a loop-close met with an empty stack and a loop-open never
\* closed have no entry
C16_JumpTablePairing ==
    status # "new" =>
        /\ \A k \in DOMAIN jump_map :
              /\ k \in 0..(Len(tokens) - 1)
              /\ tokens[k + 1].type \in {TT_SQLEFT, TT_SQRIGHT}
              /\ jump_map[k] \in DOMAIN jump_map
              /\ jump_map[jump_map[k]] = k
              /\ IF tokens[k + 1].type = TT_SQLEFT
                 THEN Partners(tokens, k, jump_map[k])
                 ELSE Partners(tokens, jump_map[k], k)
        /\ \A i, j \in 0..(Len(tokens) - 1) :
              Partners(tokens, i, j) => (i \in DOMAIN jump_map /\ jump_map[i] = j)

\* C16's case: a nested pair after a loop-close with nothing to close
C16_Witness ==
    /\ status = "exit"
    /\ tokens = <<T(TT_SQRIGHT), T(TT_SQLEFT), T(TT_SQLEFT), T(TT_SQRIGHT),
                  T(TT_SQRIGHT), T(TT_EXIT)>>
    /\ DOMAIN jump_map = {1, 2, 3, 4}
    /\ jump_map[1] = 4

\* C17: when compile() meets print-number, or a print-char, input, plus-one
\* or minus-one token whose next token is an address marker, it emits the
\* diagnostic and appends no target symbol for that token
C17_UnsupportedSkipped ==
    [][(/\ status = "compile"
        /\ \/ tok.type = TT_PRNTN
           \/ /\ tok.type \in {TT_PRNT, TT_INPUT, TT_PLUS, TT_SUB}
              /\ PeekOk
              /\ peek_tok.type = TT_PMARK) =>
          ("no_equivalent" \in warnings' /\ bf' = bf)]_vars

\* C18: a source that starts with a run of letters spelling a keyword (in
\* any case), whatever non-letter follows the run (a digit or '!' as well as
\* a delimiter), yields that keyword's token first
C18_KeywordBeforeNonLetter ==
    LET word == UpperWord(source, 1, LetterRunEnd(source, 1))
    IN  (lpc = "returned" /\ word \in DOMAIN KEYWORDS) =>
            tokens[1] = Token(KEYWORDS[word], None)

\* C20: the token sequence make() returns ends with the exit token, and
\* neither parse() nor compile() ever looks ahead from the last index: a token
\* about to be handled that is not the exit token has a token after it, and
\* no run ends on the operand-starved lookup error, loops included
C20_LookaheadInRange ==
    /\ lpc = "returned" => tokens[Len(tokens)].type = TT_EXIT
    /\ status \in {"run", "compile"} =>
          /\ pointer_tok < Len(tokens)
          /\ tok.type # TT_EXIT => PeekOk
    /\ status # "IndexError"

\* C20's case: ADD as the last word of the source looked ahead, met the
\* closing exit token and incremented the cell; the run ended on that token
C20_Witness ==
    /\ source = <<"A", "D", "D">>
    /\ status = "exit"
    /\ pointer_tok = 1
    /\ find_value(list, 0) = 1

=============================================================================
